---- MODULE Spec2Model ----
(***************************************************************************)
(* Model of the interface-board firmware's two-wire slave protocol:        *)
(* calcCrc, handleGeneralCall, TwoWireCallback (BaseProtocol.cpp) and the   *)
(* command table processCommand / measure_hopper (Main.cpp).                *)
(*                                                                         *)
(* TwoWireCallback runs in the bus interrupt: the action TwoWireCallbackIsr *)
(* is one whole call on the buffer the transport received, IsrReturn is the *)
(* return from the interrupt to the main loop, measure_hopper is one        *)
(* iteration of loop().                                                     *)
(***************************************************************************)
EXTENDS Integers, Sequences, FiniteSets

(* ---------------- bounds of the model ---------------- *)
\* longest frame (command, payload and checksum) the master sends
MaxFrame == 3
\* largest reply capacity (maxLen) the transport offers
MaxCap == 6
\* general calls RESET_ADDRESS per run
MaxResets == 2
\* encoder_isr and button_isr calls in a run
MaxEdges == 6
MaxPresses == 2

(* ---------------- program constants ---------------- *)
COMMAND_OK == 0
COMMAND_FAILED == 1
COMMAND_NOT_SUPPORTED == 2
INVALID_TRANSFER == 3
INVALID_CRC == 4
INVALID_ARGUMENTS == 5
NO_REPLY == 255
RESET == 6
RESET_ADDRESS == 4
GET_LAST_MEASUREMENT == 128
I2C_ADDRESS == 8
hopper_threshold == 20
HOPPER_FULL == 1
HOPPER_EMPTY == 0
\* generator polynomial of _crc8_ccitt_update (x^8 + x^2 + x + 1)
CrcPoly == 7

Byte == 0..255
\* "the call has not returned" (RESET spins for ever)
NoReturn == -1

(* ---------------- 8-bit arithmetic ---------------- *)
U8(x) == x % 256

RECURSIVE XorBits(_, _, _)
XorBits(a, b, n) ==
    IF n = 0 THEN 0
    ELSE ((a + b) % 2) + 2 * XorBits(a \div 2, b \div 2, n - 1)

\* a ^ b on uint8_t
Xor8(a, b) == XorBits(a, b, 8)

RECURSIVE CrcShift(_, _)
\* the loop of _crc8_ccitt_update: n times, shift left and, when the bit
\* shifted out was set, xor the polynomial in
CrcShift(d, n) ==
    IF n = 0 THEN d
    ELSE CrcShift(IF d >= 128 THEN Xor8(U8(2 * d), CrcPoly) ELSE U8(2 * d),
                  n - 1)

\* the eight shifts of every byte value, computed once
CrcTable == [d \in Byte |-> CrcShift(d, 8)]

\* avr-libc _crc8_ccitt_update(inCrc, inData): data = inCrc ^ inData, then
\* the eight shifts of data
crc8_ccitt_update(crc, d) == CrcTable[Xor8(crc, d)]

(* ---------------- the memory at data ---------------- *)
\* The transport's buffer is the cells 0..MaxCap-1 of mem. Cell MaxCap of
\* mem stands for every cell behind the buffer that an uint8_t index still
\* reaches: a load from there reads it, a store there is outside the buffer
\* and leaves the buffer's cells as they are.
Behind == MaxCap

\* data[i]
Load(mem, i) == IF i < Behind THEN mem[i] ELSE mem[Behind]

\* data[i] = v
Store(mem, i, v) ==
    [j \in DOMAIN mem |-> IF j = i /\ i < Behind THEN v ELSE mem[j]]

RECURSIVE CrcFrom(_, _, _, _)
\* for (i = ...; i < len; ++i) crc = _crc8_ccitt_update(crc, data[i])
CrcFrom(mem, i, n, crc) ==
    IF i >= n THEN crc
    ELSE CrcFrom(mem, i + 1, n, crc8_ccitt_update(crc, Load(mem, i)))

\* calcCrc(data, len)
calcCrc(mem, n) == CrcFrom(mem, 0, n, 0)

(* ---------------- state ---------------- *)
VARIABLES
    pc,            \* "main": loop() runs; "isr": TwoWireCallback has returned,
                   \* the interrupt has not; "spin": while(true) after RESET
    measurement,   \* uint16_t measurement[2]
    hopper,        \* level last written to H_Out
    address,       \* arguments of the current call of TwoWireCallback ...
    len,
    maxLen,
    req,           \* ... the memory at data when it was entered
    entryMeas,     \* ... and measurement[] at that moment
    data,          \* the memory at data now
    ret,           \* value the call returned, NoReturn while there is none
    written,       \* indices of data the dispatcher itself stored to
    cmds,          \* the calls of processCommand it made: <<[cmd, len, maxLen]>>
    res,           \* the cmd_result it got back, <<>> when it got none
    effects,       \* its calls of wdt_enable and TwoWireResetDeviceAddress
    flipped,       \* bit of a well-formed frame the bus corrupted, -1: none
    wdtEnabled,    \* calls of wdt_enable(WDTO_15MS) so far
    resetAddress,  \* calls of TwoWireResetDeviceAddress() so far
    resetAddressSeen  \* general calls [RESET_ADDRESS, ...] received so far

\* measure_hopper() statement by statement
VARIABLES
    line,          \* the statement of measure_hopper() to run next
    on,            \* uint16_t on, off: the two readings of the iteration
    off,
    interrupts,    \* the global interrupt flag (SREG I bit)
    stored         \* the readings of the last iteration that stored both

\* ButtonEncoder
VARIABLES
    encoder_value,           \* static volatile uint8_t encoder_value
    encoder_last_processed,  \* static uint8_t encoder_last_processed
    prev_reading,            \* static uint8_t prev_reading of encoder_isr
    button_presses,          \* static volatile uint8_t button_presses
    restarted,     \* process_task.restart() called since process() began
    proc,          \* process(): "idle", "loop", "pack" or "done" (returned)
    useful_position,         \* int8_t useful_position of process()
    returnValue,   \* uint16_t returnValue, what process() returned last
    entryLast,     \* encoder_last_processed when process() was entered
    firstDiff,     \* diff of the first and of the last pass of its loop
    lastDiff,
    returnDiff,    \* encoder_value - encoder_last_processed as process() returns
    taken,         \* button_isr calls since button_presses was last reset
    reported,      \* ... and those the last return of process() stood for
    edges,         \* encoder_isr calls so far
    presses        \* button_isr calls so far

protocolVars ==
    <<pc, measurement, hopper, address, len, maxLen, req, entryMeas, data,
      ret, written, cmds, res, effects, flipped, wdtEnabled, resetAddress,
      resetAddressSeen>>

loopVars == <<line, on, off, interrupts, stored>>

encoderVars ==
    <<encoder_value, encoder_last_processed, prev_reading, button_presses,
      restarted, proc, useful_position, returnValue, entryLast, firstDiff,
      lastDiff, returnDiff, taken, reported, edges, presses>>

vars == <<protocolVars, loopVars, encoderVars>>

(* ---------------- Main.cpp ---------------- *)
\* cmd_result(status, len = 0), with the memory the handler leaves behind
cmd_result(status, n, mem) == [status |-> status, len |-> n, data |-> mem]

\* faulty variant: the low byte of each measurement first
processCommand_LowFirst(cmd, mem, n, cap) ==
    IF cmd = GET_LAST_MEASUREMENT
    THEN IF n # 0 \/ cap < 4
         THEN cmd_result(INVALID_ARGUMENTS, 0, mem)
         ELSE cmd_result(COMMAND_OK, 4,
                  Store(Store(Store(Store(mem,
                      1, U8(measurement[0])),
                      2, U8(measurement[0] \div 256)),
                      3, U8(measurement[1])),
                      4, U8(measurement[1] \div 256)))
    ELSE cmd_result(COMMAND_NOT_SUPPORTED, 0, mem)

\* faulty variant: an unknown command is dropped without a reply
processCommand_SilentDefault(cmd, mem, n, cap) ==
    IF cmd = GET_LAST_MEASUREMENT
    THEN IF n # 0 \/ cap < 4
         THEN cmd_result(INVALID_ARGUMENTS, 0, mem)
         ELSE cmd_result(COMMAND_OK, 4,
                  Store(Store(Store(Store(mem,
                      1, U8(measurement[0] \div 256)),
                      2, U8(measurement[0])),
                      3, U8(measurement[1] \div 256)),
                      4, U8(measurement[1])))
    ELSE cmd_result(NO_REPLY, 0, mem)

\* faulty variant: the room for the four reply bytes is not looked at
processCommand_NoRoomCheck(cmd, mem, n, cap) ==
    IF cmd = GET_LAST_MEASUREMENT
    THEN IF n # 0
         THEN cmd_result(INVALID_ARGUMENTS, 0, mem)
         ELSE cmd_result(COMMAND_OK, 4,
                  Store(Store(Store(Store(mem,
                      1, U8(measurement[0] \div 256)),
                      2, U8(measurement[0])),
                      3, U8(measurement[1] \div 256)),
                      4, U8(measurement[1])))
    ELSE cmd_result(COMMAND_NOT_SUPPORTED, 0, mem)

\* processCommand(cmd, datain, len, dataout, maxLen). TwoWireCallback calls
\* the four-argument processCommand(cmd, data, len, maxLen) that
\* BaseProtocol.h declares, with data + 1 for data: datain and dataout are
\* both that pointer, dataout[k] is mem[k + 1]; n and cap are len and maxLen
processCommand(cmd, mem, n, cap) ==
    IF cmd = GET_LAST_MEASUREMENT
    THEN IF n # 0 \/ cap < 4
         THEN cmd_result(INVALID_ARGUMENTS, 0, mem)
         ELSE cmd_result(COMMAND_OK, 4,
                  Store(Store(Store(Store(mem,
                      1, U8(measurement[0] \div 256)),
                      2, U8(measurement[0])),
                      3, U8(measurement[1] \div 256)),
                      4, U8(measurement[1])))
    ELSE cmd_result(COMMAND_NOT_SUPPORTED, 0, mem)

\* any other definition of the processCommand that BaseProtocol.h declares:
\* it returns the cmd_result h and stores h.fill to the reply bytes it
\* declares, as far as the capacity it was given reaches
StubCommand(h, mem, cap) ==
    cmd_result(h.status, h.len,
        [i \in DOMAIN mem |->
            IF i >= 1 /\ i <= h.len /\ i <= cap /\ i < Behind
            THEN h.fill ELSE mem[i]])

Firmware == [kind |-> "firmware"]

InvokeHandler(h, cmd, mem, n, cap) ==
    IF h.kind = "firmware" THEN processCommand(cmd, mem, n, cap)
    ELSE StubCommand(h, mem, cap)

(* ---------------- BaseProtocol.cpp ---------------- *)
\* what one call of TwoWireCallback does
NoEffect == [wdt |-> 0, rstaddr |-> 0]

\* what one call does: the memory at data, the value returned, the indices
\* of data the dispatcher stored to, its calls of processCommand, the
\* cmd_result it got and its calls of the platform and the transport
Outcome(mem, r, w, c, rs, e) ==
    [data |-> mem, ret |-> r, written |-> w, cmds |-> c, res |-> rs,
     effects |-> e]

\* faulty variant: RESET arms the watchdog and returns
handleGeneralCall_NoSpin(mem, n, cap) ==
    IF n >= 1 /\ Load(mem, 0) = RESET
    THEN Outcome(mem, 0, {}, <<>>, <<>>, [NoEffect EXCEPT !.wdt = 1])
    ELSE IF n >= 1 /\ Load(mem, 0) = RESET_ADDRESS
    THEN Outcome(mem, 0, {}, <<>>, <<>>, [NoEffect EXCEPT !.rstaddr = 1])
    ELSE Outcome(mem, 0, {}, <<>>, <<>>, NoEffect)

\* faulty variant: RESET_ADDRESS is acted on without looking at len
handleGeneralCall_NoLen(mem, n, cap) ==
    IF n >= 1 /\ Load(mem, 0) = RESET
    THEN Outcome(mem, NoReturn, {}, <<>>, <<>>, [NoEffect EXCEPT !.wdt = 1])
    ELSE IF Load(mem, 0) = RESET_ADDRESS
    THEN Outcome(mem, 0, {}, <<>>, <<>>, [NoEffect EXCEPT !.rstaddr = 1])
    ELSE Outcome(mem, 0, {}, <<>>, <<>>, NoEffect)

\* faulty variant: every directive other than RESET resets the address
handleGeneralCall_AnyResets(mem, n, cap) ==
    IF n >= 1 /\ Load(mem, 0) = RESET
    THEN Outcome(mem, NoReturn, {}, <<>>, <<>>, [NoEffect EXCEPT !.wdt = 1])
    ELSE IF n >= 1
    THEN Outcome(mem, 0, {}, <<>>, <<>>, [NoEffect EXCEPT !.rstaddr = 1])
    ELSE Outcome(mem, 0, {}, <<>>, <<>>, NoEffect)

handleGeneralCall(mem, n, cap) ==
    IF n >= 1 /\ Load(mem, 0) = RESET
    THEN \* wdt_enable(WDTO_15MS); while(true);
         Outcome(mem, NoReturn, {}, <<>>, <<>>, [NoEffect EXCEPT !.wdt = 1])
    ELSE IF n >= 1 /\ Load(mem, 0) = RESET_ADDRESS
    THEN \* TwoWireResetDeviceAddress(); return 0
         Outcome(mem, 0, {}, <<>>, <<>>, [NoEffect EXCEPT !.rstaddr = 1])
    ELSE Outcome(mem, 0, {}, <<>>, <<>>, NoEffect)

\* faulty variant: the checksum leaves out the last byte of the reply
AppendCrc_Short(mem, n, w, c, rs) ==
    Outcome(Store(mem, n, calcCrc(mem, n - 1)), U8(n + 1), w \cup {n}, c, rs,
            NoEffect)

\* faulty variant: len is returned without the increment
AppendCrc_NoIncrement(mem, n, w, c, rs) ==
    Outcome(Store(mem, n, calcCrc(mem, n)), n, w \cup {n}, c, rs, NoEffect)

\* lines 52-55: data[len] = calcCrc(data, len); ++len; return len
AppendCrc(mem, n, w, c, rs) ==
    Outcome(Store(mem, n, calcCrc(mem, n)), U8(n + 1), w \cup {n}, c, rs,
            NoEffect)

\* faulty variant: a NO_REPLY result is framed like any other
RunCommand_NoSuppress(mem, n, cap, h) ==
    LET call == [cmd |-> Load(mem, 0), len |-> U8(n - 2), maxLen |-> U8(cap - 2)]
        r == InvokeHandler(h, call.cmd, mem, call.len, call.maxLen)
    IN  AppendCrc(Store(r.data, 0, r.status), U8(r.len + 1), {0}, <<call>>, r)

\* faulty variant: the handler is given len - 1 for its payload length
RunCommand_LenOffByOne(mem, n, cap, h) ==
    LET call == [cmd |-> Load(mem, 0), len |-> U8(n - 1), maxLen |-> U8(cap - 2)]
        r == InvokeHandler(h, call.cmd, mem, call.len, call.maxLen)
    IN  IF r.status = NO_REPLY
        THEN Outcome(r.data, 0, {}, <<call>>, r, NoEffect)
        ELSE AppendCrc(Store(r.data, 0, r.status), U8(r.len + 1), {0},
                       <<call>>, r)

\* lines 43-48: the frame's checksum is 0, run the command
RunCommand(mem, n, cap, h) ==
    LET call == [cmd |-> Load(mem, 0), len |-> U8(n - 2), maxLen |-> U8(cap - 2)]
        r == InvokeHandler(h, call.cmd, mem, call.len, call.maxLen)
    IN  IF r.status = NO_REPLY
        THEN Outcome(r.data, 0, {}, <<call>>, r, NoEffect)
        ELSE AppendCrc(Store(r.data, 0, r.status), U8(r.len + 1), {0},
                       <<call>>, r)

\* faulty variant: no check of the room for a status byte and a CRC
TwoWireCallback_NoCapCheck(addr, mem, n, cap, h) ==
    IF addr = 0 THEN handleGeneralCall(mem, n, cap)
    ELSE IF n < 2
    THEN AppendCrc(Store(mem, 0, INVALID_TRANSFER), 1, {0}, <<>>, <<>>)
    ELSE IF calcCrc(mem, n) # 0
    THEN AppendCrc(Store(mem, 0, INVALID_CRC), 1, {0}, <<>>, <<>>)
    ELSE RunCommand(mem, n, cap, h)

\* faulty variant: the room is checked as maxLen < 1
TwoWireCallback_CapOffByOne(addr, mem, n, cap, h) ==
    IF addr = 0 THEN handleGeneralCall(mem, n, cap)
    ELSE IF cap < 1 THEN Outcome(mem, 0, {}, <<>>, <<>>, NoEffect)
    ELSE IF n < 2
    THEN AppendCrc(Store(mem, 0, INVALID_TRANSFER), 1, {0}, <<>>, <<>>)
    ELSE IF calcCrc(mem, n) # 0
    THEN AppendCrc(Store(mem, 0, INVALID_CRC), 1, {0}, <<>>, <<>>)
    ELSE RunCommand(mem, n, cap, h)

\* faulty variant: the frame's checksum is not looked at
TwoWireCallback_NoCrcCheck(addr, mem, n, cap, h) ==
    IF addr = 0 THEN handleGeneralCall(mem, n, cap)
    ELSE IF cap < 2 THEN Outcome(mem, 0, {}, <<>>, <<>>, NoEffect)
    ELSE IF n < 2
    THEN AppendCrc(Store(mem, 0, INVALID_TRANSFER), 1, {0}, <<>>, <<>>)
    ELSE RunCommand(mem, n, cap, h)

\* faulty variant: the length is checked as len < 1
TwoWireCallback_LenOffByOne(addr, mem, n, cap, h) ==
    IF addr = 0 THEN handleGeneralCall(mem, n, cap)
    ELSE IF cap < 2 THEN Outcome(mem, 0, {}, <<>>, <<>>, NoEffect)
    ELSE IF n < 1
    THEN AppendCrc(Store(mem, 0, INVALID_TRANSFER), 1, {0}, <<>>, <<>>)
    ELSE IF calcCrc(mem, n) # 0
    THEN AppendCrc(Store(mem, 0, INVALID_CRC), 1, {0}, <<>>, <<>>)
    ELSE RunCommand(mem, n, cap, h)

TwoWireCallback(addr, mem, n, cap, h) ==
    IF addr = 0 THEN handleGeneralCall(mem, n, cap)
    ELSE IF cap < 2 THEN Outcome(mem, 0, {}, <<>>, <<>>, NoEffect)
    ELSE IF n < 2
    THEN AppendCrc(Store(mem, 0, INVALID_TRANSFER), 1, {0}, <<>>, <<>>)
    ELSE IF calcCrc(mem, n) # 0
    THEN AppendCrc(Store(mem, 0, INVALID_CRC), 1, {0}, <<>>, <<>>)
    ELSE RunCommand(mem, n, cap, h)

(* ---------------- what the environment supplies ---------------- *)
\* first byte the master sends: the command, the two general-call directives
\* (unknown commands when addressed) and 0
ReqBytes == {0, RESET_ADDRESS, RESET, GET_LAST_MEASUREMENT}
\* the bytes it sends after the first
PayloadBytes == {0, 165}         \* 0x00, 0xA5
\* what a buffer cell beyond the received bytes may still hold
StaleBytes == {0, RESET_ADDRESS, RESET}
\* readings analogRead() delivers
AdcValues == {4660, 22136}       \* 0x1234, 0x5678
\* statuses, declared payload lengths and payload byte of an arbitrary
\* command handler
StubStatuses == {COMMAND_OK, COMMAND_FAILED, INVALID_ARGUMENTS, NO_REPLY}
StubLens == (0..(MaxCap + 1)) \cup {253, 254, 255}
StubFills == {90}                \* 0x5A
Stubs ==
    [kind : {"stub"}, status : StubStatuses, len : StubLens, fill : StubFills]

RECURSIVE SeqsUpTo(_, _)
SeqsUpTo(S, n) ==
    IF n = 0 THEN {<<>>}
    ELSE LET shorter == SeqsUpTo(S, n - 1)
         IN  shorter \cup {Append(q, b) : q \in {x \in shorter : Len(x) = n - 1},
                                          b \in S}

\* the memory at data after the transport stored the frame f there
MemOf(f, fill) == [i \in 0..Behind |-> IF i < Len(f) THEN f[i + 1] ELSE fill]

\* the master's framing: body followed by the checksum of body
Framed(body) == Append(body, calcCrc(MemOf(body, 0), Len(body)))

RECURSIVE Pow2(_)
Pow2(k) == IF k = 0 THEN 1 ELSE 2 * Pow2(k - 1)

\* bit k of the frame inverted on the bus
FlipBit(mem, k) ==
    IF k < 0 THEN mem
    ELSE [i \in DOMAIN mem |->
             IF i = k \div 8 THEN Xor8(mem[i], Pow2(k % 8)) ELSE mem[i]]

ZeroMem == [i \in 0..Behind |-> 0]
ZeroMeas == [i \in 0..1 |-> 0]

(* ---------------- actions ---------------- *)
Init ==
    /\ pc = "main"
    /\ measurement = ZeroMeas
    /\ hopper = HOPPER_EMPTY       \* H_Out is low until the first iteration
    /\ address = 0 /\ len = 0 /\ maxLen = 0
    /\ req = ZeroMem /\ data = ZeroMem /\ entryMeas = ZeroMeas
    /\ ret = NoReturn /\ written = {} /\ cmds = <<>> /\ res = <<>>
    /\ effects = NoEffect /\ flipped = -1
    /\ wdtEnabled = 0 /\ resetAddress = 0 /\ resetAddressSeen = 0
    /\ line = "read_on" /\ on = 0 /\ off = 0 /\ interrupts = TRUE
    /\ stored = <<0, 0>>
    /\ encoder_value = 0 /\ encoder_last_processed = 0 /\ prev_reading = 3
    /\ button_presses = 0 /\ restarted = FALSE
    /\ proc = "idle" /\ useful_position = 0 /\ returnValue = 0
    /\ entryLast = 0 /\ firstDiff = 0 /\ lastDiff = 0 /\ returnDiff = 0
    /\ taken = 0 /\ reported = 0 /\ edges = 0 /\ presses = 0

\* one iteration of loop(): both readings, the store inside ATOMIC_BLOCK and
\* the hopper output
measure_hopper ==
    /\ pc = "main"
    /\ \E a \in AdcValues, b \in AdcValues :
          /\ measurement' = [i \in 0..1 |-> IF i = 0 THEN a ELSE b]
          /\ hopper' = IF a < b /\ (b - a) > hopper_threshold
                       THEN HOPPER_EMPTY ELSE HOPPER_FULL
    /\ UNCHANGED <<pc, address, len, maxLen, req, entryMeas, data, ret, written,
                   cmds, res, effects, flipped, wdtEnabled, resetAddress,
                   resetAddressSeen>>
    /\ UNCHANGED <<loopVars, encoderVars>>

\* the bus interrupt calls TwoWireCallback(addr, mem, n, cap) with handler h
\* linked in; bit is the bit of the frame corrupted on the bus, if any
Call(addr, mem, n, cap, h, bit) ==
    \E o \in {TwoWireCallback(addr, mem, n, cap, h)} :
        /\ n <= cap
        /\ pc' = IF o.ret = NoReturn THEN "spin" ELSE "isr"
        /\ address' = addr /\ len' = n /\ maxLen' = cap
        /\ req' = mem /\ entryMeas' = measurement
        /\ data' = o.data /\ ret' = o.ret /\ written' = o.written
        /\ cmds' = o.cmds /\ res' = o.res
        /\ effects' = o.effects /\ flipped' = bit
        /\ wdtEnabled' = wdtEnabled + o.effects.wdt
        /\ resetAddress' = resetAddress + o.effects.rstaddr
        /\ resetAddressSeen' = resetAddressSeen +
               (IF addr = 0 /\ n >= 1 /\ mem[0] = RESET_ADDRESS THEN 1 ELSE 0)
        /\ UNCHANGED <<measurement, hopper>>
        /\ UNCHANGED <<loopVars, encoderVars>>

\* byte strings of 1..n bytes the master sends
Strings(n) ==
    {<<c>> \o p : c \in ReqBytes, p \in SeqsUpTo(PayloadBytes, n - 1)}

\* frames as the bus delivers them, each with the bit inverted on the way
\* (-1: none): any bytes ...
RawFrames == {<<f, -1>> : f \in {<<>>} \cup Strings(MaxFrame)}

\* ... or a body framed by the master, with at most one bit inverted
SentFrames ==
    {<<Framed(b), k>> : b \in Strings(MaxFrame - 1),
                        k \in -1..(8 * MaxFrame - 1)}

\* a general call carries a bare directive, an addressed transfer a frame
FramesTo(addr) == IF addr = 0 THEN RawFrames ELSE RawFrames \cup SentFrames

\* the main loop is interrupted: interrupts are enabled and the bus has
\* sent fewer than MaxResets general calls RESET_ADDRESS so far
Interruptible == pc = "main" /\ interrupts /\ resetAddressSeen < MaxResets

TwoWireCallbackIsr ==
    /\ Interruptible
    /\ \E addr \in {0, I2C_ADDRESS}, cap \in 0..MaxCap, fill \in StaleBytes :
         \E f \in FramesTo(addr) :
            /\ f[2] < 8 * Len(f[1])
            /\ Len(f[1]) <= cap
            /\ Call(addr, FlipBit(MemOf(f[1], fill), f[2]),
                    Len(f[1]), cap, Firmware, f[2])

\* the interrupt returns; the transport sends ret bytes of the buffer
IsrReturn ==
    /\ pc = "isr"
    /\ pc' = "main"
    /\ address' = 0 /\ len' = 0 /\ maxLen' = 0
    /\ req' = ZeroMem /\ data' = ZeroMem /\ entryMeas' = ZeroMeas
    /\ ret' = NoReturn /\ written' = {} /\ cmds' = <<>> /\ res' = <<>>
    /\ effects' = NoEffect /\ flipped' = -1
    /\ UNCHANGED <<measurement, hopper, wdtEnabled, resetAddress,
                   resetAddressSeen>>
    /\ UNCHANGED <<loopVars, encoderVars>>

Next == measure_hopper \/ TwoWireCallbackIsr \/ IsrReturn

\* the firmware: BaseProtocol.cpp linked with Main.cpp
Spec == Init /\ [][Next]_vars

\* TwoWireCallback linked with any other processCommand: a well-formed
\* frame reaches a handler that may return any cmd_result
TwoWireCallbackAny ==
    /\ Interruptible
    /\ \E cap \in 0..MaxCap, fill \in StaleBytes, h \in Stubs :
         \E f \in {g \in SentFrames : g[2] = -1} :
            /\ Len(f[1]) <= cap
            /\ Call(I2C_ADDRESS, MemOf(f[1], fill), Len(f[1]), cap, h, -1)

NextAny == TwoWireCallbackIsr \/ TwoWireCallbackAny \/ IsrReturn

\* BaseProtocol.cpp with the firmware's handler or any other
SpecAnyHandler == Init /\ [][NextAny]_vars

(* ---------------- Main.cpp, measure_hopper() by statement ---------------- *)
\* faulty variant: the two stores are not in an ATOMIC_BLOCK
ATOMIC_BLOCK_Open == TRUE

\* line 93: the interrupt flag inside ATOMIC_BLOCK(ATOMIC_RESTORESTATE)
ATOMIC_BLOCK == FALSE

\* lines 84-86: uint16_t on = analogRead(...)
ReadOn ==
    /\ pc = "main" /\ line = "read_on"
    /\ line' = "read_off"
    /\ on' \in AdcValues
    /\ UNCHANGED <<off, interrupts, stored, protocolVars, encoderVars>>

\* lines 88-90: uint16_t off = analogRead(...)
ReadOff ==
    /\ pc = "main" /\ line = "read_off"
    /\ line' = "enter"
    /\ off' \in AdcValues
    /\ UNCHANGED <<on, interrupts, stored, protocolVars, encoderVars>>

\* line 93: ATOMIC_BLOCK saves SREG and disables interrupts
AtomicEnter ==
    /\ pc = "main" /\ line = "enter"
    /\ line' = "store0"
    /\ interrupts' = ATOMIC_BLOCK
    /\ UNCHANGED <<on, off, stored, protocolVars, encoderVars>>

\* line 94: measurement[0] = on
Store0 ==
    /\ pc = "main" /\ line = "store0"
    /\ line' = "store1"
    /\ measurement' = [i \in 0..1 |-> IF i = 0 THEN on ELSE measurement[i]]
    /\ UNCHANGED <<on, off, interrupts, stored, encoderVars>>
    /\ UNCHANGED <<pc, hopper, address, len, maxLen, req, entryMeas, data, ret,
                   written, cmds, res, effects, flipped, wdtEnabled,
                   resetAddress, resetAddressSeen>>

\* line 95: measurement[1] = off
Store1 ==
    /\ pc = "main" /\ line = "store1"
    /\ line' = "leave"
    /\ measurement' = [i \in 0..1 |-> IF i = 1 THEN off ELSE measurement[i]]
    /\ stored' = <<on, off>>
    /\ UNCHANGED <<on, off, interrupts, encoderVars>>
    /\ UNCHANGED <<pc, hopper, address, len, maxLen, req, entryMeas, data, ret,
                   written, cmds, res, effects, flipped, wdtEnabled,
                   resetAddress, resetAddressSeen>>

\* line 96: the block ends, SREG is restored (interrupts were enabled)
AtomicLeave ==
    /\ pc = "main" /\ line = "leave"
    /\ line' = "output"
    /\ interrupts' = TRUE
    /\ UNCHANGED <<on, off, stored, protocolVars, encoderVars>>

\* lines 99-102: digitalWrite(H_Out, ...); loop() calls measure_hopper again
Output ==
    /\ pc = "main" /\ line = "output"
    /\ line' = "read_on"
    /\ hopper' = IF on < off /\ (off - on) > hopper_threshold
                 THEN HOPPER_EMPTY ELSE HOPPER_FULL
    /\ UNCHANGED <<on, off, interrupts, stored, encoderVars>>
    /\ UNCHANGED <<pc, measurement, address, len, maxLen, req, entryMeas, data,
                   ret, written, cmds, res, effects, flipped, wdtEnabled,
                   resetAddress, resetAddressSeen>>

\* the bus interrupt, taken between two statements when interrupts are
\* enabled: the master sends a framed request of one byte
TwoWireCallbackBetween ==
    /\ Interruptible
    /\ \E cap \in 2..MaxCap :
         \E f \in {g \in SentFrames : g[2] = -1 /\ Len(g[1]) = 2} :
            Call(I2C_ADDRESS, MemOf(f[1], 0), 2, cap, Firmware, -1)

NextLoop ==
    \/ ReadOn \/ ReadOff \/ AtomicEnter \/ Store0 \/ Store1 \/ AtomicLeave
    \/ Output \/ TwoWireCallbackBetween \/ IsrReturn

\* the firmware with the main loop run statement by statement
SpecLoop == Init /\ [][NextLoop]_vars

(* ---------------- ButtonEncoder.h ---------------- *)
\* (int8_t)x of an uint8_t x, (uint16_t)x of an int x
S8(x) == IF x > 127 THEN x - 256 ELSE x
U16(x) == x % 65536

\* faulty variant: the commonly used table, 0 for the invalid transitions
table_Original ==
    <<0, -1, 1, 0,  1, 0, 0, -1,  -1, 0, 0, 1,  0, 1, -1, 0>>

\* line 159: table[], indexed from 1 here
table ==
    <<0, -1, 1, 2,  1, 0, 2, -1,  -1, -2, 0, 1,  -2, 1, -1, 0>>

\* lines 160-162: the value after a reading; pgm_read_byte gives an uint8_t
Advance(value, prev, reading) ==
    U8(value + U8(table[(prev * 4 + reading) + 1]))

\* lines 152-170: encoder_isr(), either pin changed (or bounced)
encoder_isr ==
    /\ edges < MaxEdges
    /\ \E reading \in 0..3 :
          /\ encoder_value' = Advance(encoder_value, prev_reading, reading)
          /\ prev_reading' = reading
    /\ restarted' = (restarted \/ encoder_value' % 4 = 0)
    /\ edges' = edges + 1
    /\ UNCHANGED <<encoder_last_processed, button_presses, proc,
                   useful_position, returnValue, entryLast, firstDiff,
                   lastDiff, returnDiff, taken, reported, presses>>
    /\ UNCHANGED <<protocolVars, loopVars>>

\* lines 148-150: button_isr()
button_isr ==
    /\ presses < MaxPresses
    /\ button_presses' = U8(button_presses + 1)
    /\ taken' = taken + 1
    /\ presses' = presses + 1
    /\ UNCHANGED <<encoder_value, encoder_last_processed, prev_reading,
                   restarted, proc, useful_position, returnValue, entryLast,
                   firstDiff, lastDiff, returnDiff, reported, edges>>
    /\ UNCHANGED <<protocolVars, loopVars>>

\* faulty variant: an event as soon as the difference reaches 3
Pass_Early(value, last, pos) ==
    LET diff == S8(U8(value - last))
    IN  IF diff < -2
        THEN [last |-> U8(last - 4), pos |-> S8(U8(pos - 1)), diff |-> diff,
              to |-> "loop"]
        ELSE IF diff > 2
        THEN [last |-> U8(last + 4), pos |-> S8(U8(pos + 1)), diff |-> diff,
              to |-> "loop"]
        ELSE [last |-> last, pos |-> pos, diff |-> diff, to |-> "pack"]

\* lines 117-134: one pass of while (true) in process()
Pass(value, last, pos) ==
    LET diff == S8(U8(value - last))
    IN  IF diff < -3
        THEN [last |-> U8(last - 4), pos |-> S8(U8(pos - 1)), diff |-> diff,
              to |-> "loop"]
        ELSE IF diff > 3
        THEN [last |-> U8(last + 4), pos |-> S8(U8(pos + 1)), diff |-> diff,
              to |-> "loop"]
        ELSE [last |-> last, pos |-> pos, diff |-> diff, to |-> "pack"]

\* lines 135-141: returnValue as the assignments leave it. Both assignments
\* inside the ATOMIC_BLOCK are plain =, so the value of line 135 is replaced
Pack(pos, pressed) ==
    LET line135 == U16(pos * 256)
        line138 == pressed % 128
        line140 == 127
    IN  IF pressed < 128 THEN line138 ELSE line140

\* lines 113-134: process() is called and runs the first pass of its loop
ProcessEnter ==
    /\ proc \in {"idle", "done"}
    /\ \E o \in {Pass(encoder_value, encoder_last_processed, 0)} :
          /\ encoder_last_processed' = o.last
          /\ useful_position' = o.pos
          /\ firstDiff' = o.diff /\ lastDiff' = o.diff
          /\ proc' = o.to
    /\ entryLast' = encoder_last_processed
    /\ returnValue' = 0
    /\ restarted' = FALSE
    /\ UNCHANGED <<encoder_value, prev_reading, button_presses, returnDiff,
                   taken, reported, edges, presses>>
    /\ UNCHANGED <<protocolVars, loopVars>>

\* lines 117-134: a further pass of the loop
ProcessLoop ==
    /\ proc = "loop"
    /\ \E o \in {Pass(encoder_value, encoder_last_processed, useful_position)} :
          /\ encoder_last_processed' = o.last
          /\ useful_position' = o.pos
          /\ lastDiff' = o.diff
          /\ proc' = o.to
    /\ UNCHANGED <<encoder_value, prev_reading, button_presses, restarted,
                   returnValue, entryLast, firstDiff, returnDiff, taken,
                   reported, edges, presses>>
    /\ UNCHANGED <<protocolVars, loopVars>>

\* lines 135-143: the result is packed, button_presses read and reset with
\* interrupts disabled, and process() returns
ProcessReturn ==
    /\ proc = "pack"
    /\ proc' = "done"
    /\ returnValue' = Pack(useful_position, button_presses)
    /\ button_presses' = 0
    /\ reported' = taken /\ taken' = 0
    /\ returnDiff' = S8(U8(encoder_value - encoder_last_processed))
    /\ UNCHANGED <<encoder_value, encoder_last_processed, prev_reading,
                   restarted, useful_position, entryLast, firstDiff, lastDiff,
                   edges, presses>>
    /\ UNCHANGED <<protocolVars, loopVars>>

NextEncoder ==
    encoder_isr \/ button_isr \/ ProcessEnter \/ ProcessLoop \/ ProcessReturn

\* ButtonEncoder: process() in the main loop, both handlers as interrupts
SpecEncoder == Init /\ [][NextEncoder]_vars

(* ================= the claims ================= *)
\* the current call has returned / has been entered
Returned == pc = "isr"
Called == pc \in {"isr", "spin"}
Addressed == address # 0
\* the frame received has a command byte, a checksum byte and checksum 0
WellFormed == len >= 2 /\ calcCrc(req, len) = 0
\* measurement[] held (0x1234, 0x5678) when the call was entered
Measured == entryMeas[0] = 4660 /\ entryMeas[1] = 22136
\* the call is GET_LAST_MEASUREMENT's reply [COMMAND_OK, 12, 34, 56, 78, crc]
ScenarioReply ==
    /\ ret = 6
    /\ data[0] = COMMAND_OK
    /\ data[1] = 18 /\ data[2] = 52 /\ data[3] = 86 /\ data[4] = 120
    /\ data[5] = 28
    /\ data[5] = calcCrc(data, 5)

\* C1 as stated: the addressed request [0x80, 0x00], len 2, maxLen 6, with
\* measurement (0x1234, 0x5678) is answered [COMMAND_OK, 0x12, 0x34, 0x56,
\* 0x78, crc], length 6.
C1_Original ==
    (Returned /\ Addressed /\ len = 2 /\ maxLen = 6 /\ Measured
        /\ req[0] = GET_LAST_MEASUREMENT /\ req[1] = 0)
    => ScenarioReply

\* C1 amended: the addressed request [0x80, 0x89] (0x89 is the checksum of
\* 0x80), len 2, maxLen 6, with measurement (0x1234, 0x5678) is answered
\* [COMMAND_OK, 0x12, 0x34, 0x56, 0x78, 0x1C], length 6, 0x1C being the
\* CRC-8/CCITT of the five bytes before it.
C1_Scenario ==
    (Returned /\ Addressed /\ len = 2 /\ maxLen = 6 /\ Measured
        /\ req[0] = GET_LAST_MEASUREMENT /\ req[1] = 137)
    => ScenarioReply

C1_Witness ==
    /\ Returned /\ Addressed /\ len = 2 /\ maxLen = 6 /\ Measured
    /\ req[0] = GET_LAST_MEASUREMENT /\ req[1] = 137
    /\ ret = 6 /\ data[4] = 120

\* the dispatcher stored only below maxLen and returned at most maxLen
WithinCapacity == (\A i \in written : i < maxLen) /\ ret <= maxLen

\* C2 as stated: for every call with len <= maxLen and every cmd_result the
\* handler may return (any status, any length 0..255), the dispatcher
\* stores only to indices < maxLen and returns a length <= maxLen.
C2_Original == (Returned /\ len <= maxLen) => WithinCapacity

\* C2 amended: for every call with len <= maxLen in which the handler is not
\* invoked, returns NO_REPLY or declares a payload length <= maxLen - 2, the
\* dispatcher stores only to indices < maxLen and returns a length <= maxLen.
C2_Capacity ==
    (Returned /\ len <= maxLen
        /\ (cmds # <<>> => res.status = NO_REPLY \/ res.len <= maxLen - 2))
    => WithinCapacity

C2_Witness ==
    /\ Returned /\ cmds # <<>>
    /\ res.status = COMMAND_FAILED /\ res.len = maxLen - 2 /\ res.len = 2
    /\ ret = maxLen /\ (maxLen - 1) \in written

\* C3: an addressed call with maxLen >= 2 and len < 2 returns 2 and leaves
\* [INVALID_TRANSFER, crc] in the buffer, the two bytes checksum to 0, and
\* processCommand is not called.
C3_ShortFrame ==
    (Returned /\ Addressed /\ maxLen >= 2 /\ len < 2)
    => /\ ret = 2
       /\ data[0] = INVALID_TRANSFER /\ data[1] = 9
       /\ calcCrc(data, 2) = 0
       /\ cmds = <<>>

C3_Witness ==
    /\ Returned /\ Addressed /\ maxLen >= 2 /\ len = 1
    /\ req[0] = GET_LAST_MEASUREMENT /\ req[1] = RESET
    /\ ret = 2 /\ data[0] = INVALID_TRANSFER

\* C4: a well-formed addressed request (maxLen >= 2) with any one of its
\* bits inverted is answered [INVALID_CRC, crc], length 2, and
\* processCommand is not called.
C4_BitFlip ==
    (Returned /\ Addressed /\ maxLen >= 2 /\ flipped >= 0
        /\ len >= 2 /\ calcCrc(FlipBit(req, flipped), len) = 0)
    => /\ ret = 2
       /\ data[0] = INVALID_CRC /\ data[1] = 28
       /\ data[0] # INVALID_TRANSFER
       /\ cmds = <<>>

C4_Witness ==
    /\ Returned /\ Addressed /\ maxLen >= 2 /\ len = 3 /\ flipped = 23
    /\ calcCrc(FlipBit(req, flipped), len) = 0
    /\ req[0] = GET_LAST_MEASUREMENT
    /\ data[0] = INVALID_CRC /\ ret = 2

\* C5: for a well-formed addressed request (maxLen >= 2) the handler is
\* called once, and when it returns status s # NO_REPLY and a payload length
\* n <= maxLen - 2 the reply is s, the n bytes the handler wrote, the
\* checksum, its length is n + 2 and its n + 2 bytes checksum to 0.
C5_Reply ==
    (Returned /\ Addressed /\ maxLen >= 2 /\ WellFormed)
    => /\ Len(cmds) = 1
       /\ (res.status # NO_REPLY /\ res.len <= maxLen - 2)
          => /\ data[0] = res.status
             /\ \A i \in 1..res.len : data[i] = res.data[i]
             /\ data[res.len + 1] = calcCrc(data, res.len + 1)
             /\ ret = res.len + 2
             /\ calcCrc(data, res.len + 2) = 0

C5_Witness ==
    /\ Returned /\ Addressed /\ WellFormed /\ cmds # <<>>
    /\ res.status = INVALID_ARGUMENTS /\ res.len = 3 /\ maxLen = 5
    /\ data[1] = 90 /\ data[3] = 90
    /\ ret = 5 /\ calcCrc(data, 5) = 0

\* C6: a well-formed addressed request (maxLen >= 2) whose command byte is
\* not GET_LAST_MEASUREMENT is answered [COMMAND_NOT_SUPPORTED, crc],
\* length 2, whatever its payload; it is never dropped (return 0).
C6_UnknownCommand ==
    (Returned /\ Addressed /\ maxLen >= 2 /\ WellFormed
        /\ req[0] # GET_LAST_MEASUREMENT)
    => /\ ret = 2
       /\ data[0] = COMMAND_NOT_SUPPORTED /\ data[1] = 14

C6_Witness ==
    /\ Returned /\ Addressed /\ WellFormed /\ len = 3
    /\ req[0] = RESET /\ req[1] = 165
    /\ ret = 2 /\ data[0] = COMMAND_NOT_SUPPORTED

\* C7: an addressed call with maxLen < 2 returns 0, leaves every byte of the
\* buffer as it was, stores no status and calls neither processCommand nor
\* wdt_enable nor TwoWireResetDeviceAddress.
C7_NoRoom ==
    (Called /\ Addressed /\ maxLen < 2)
    => /\ Returned /\ ret = 0
       /\ data = req /\ written = {}
       /\ cmds = <<>>
       /\ effects = NoEffect

C7_Witness ==
    /\ Returned /\ Addressed /\ maxLen = 1 /\ len = 1
    /\ req[0] = GET_LAST_MEASUREMENT /\ ret = 0 /\ data = req

\* the frame received is the general call [RESET, ...]
ResetCall == address = 0 /\ len >= 1 /\ req[0] = RESET
\* the frame received is the general call [RESET_ADDRESS, ...]
ResetAddressCall == address = 0 /\ len >= 1 /\ req[0] = RESET_ADDRESS

C8_State ==
    /\ Called => (pc = "spin" <=> ResetCall)
    /\ pc = "spin" => /\ wdtEnabled = 1 /\ effects = [wdt |-> 1, rstaddr |-> 0]
                      /\ ret = NoReturn /\ data = req
    /\ pc = "isr" => ret # NoReturn /\ effects.wdt = 0
    /\ pc # "spin" => wdtEnabled = 0

\* C8: the general call [RESET, ...] (len >= 1) arms the watchdog and spins:
\* the call does not return, nothing is replied and nothing happens after
\* it; the watchdog is armed when the spin starts; every other call returns,
\* and nothing but RESET reaches the spin.
C8_ResetSpins == [](C8_State) /\ [][pc = "spin" => UNCHANGED vars]_vars

C8_Witness == pc = "spin" /\ ResetCall /\ len = 2 /\ wdtEnabled = 1

\* C9: the general call [RESET_ADDRESS, ...] (len >= 1) calls
\* TwoWireResetDeviceAddress once, does not arm the watchdog, leaves the
\* buffer as it was and returns 0; over a run the calls of
\* TwoWireResetDeviceAddress number the general calls RESET_ADDRESS received.
C9_ResetAddress ==
    /\ (Called /\ ResetAddressCall)
       => /\ Returned /\ ret = 0
          /\ effects = [wdt |-> 0, rstaddr |-> 1]
          /\ data = req /\ written = {}
    /\ resetAddress = resetAddressSeen

C9_Witness ==
    /\ Returned /\ ResetAddressCall /\ effects.rstaddr = 1
    /\ resetAddress = 2 /\ resetAddressSeen = 2

\* C10: a general call that returns returns 0 and leaves the buffer as it
\* was, whatever maxLen and the frame's checksum are, and processCommand is
\* not called; with len = 0 (whatever byte the buffer still holds) or a
\* first byte other than RESET and RESET_ADDRESS it returns and neither arms
\* the watchdog nor resets the address.
C10_GeneralCall ==
    /\ (Returned /\ address = 0)
       => /\ ret = 0 /\ data = req /\ written = {}
          /\ cmds = <<>>
    /\ (Called /\ address = 0
           /\ (len = 0 \/ req[0] \notin {RESET, RESET_ADDRESS}))
       => Returned /\ effects = NoEffect

C10_Witness ==
    /\ Returned /\ address = 0 /\ len = 0 /\ maxLen = 0
    /\ req[0] = RESET /\ ret = 0 /\ effects = NoEffect

\* C11: NO_REPLY is never sent: when TwoWireCallback returns a length > 0,
\* buffer[0] is not NO_REPLY; and when the handler's status is NO_REPLY,
\* whatever length it declares, the dispatcher returns 0 and stores neither
\* a status nor a checksum in the buffer.
C11_NoReply ==
    /\ (Returned /\ ret > 0) => data[0] # NO_REPLY
    /\ (Returned /\ cmds # <<>> /\ res.status = NO_REPLY)
       => ret = 0 /\ written = {} /\ data = res.data

C11_Witness ==
    /\ Returned /\ cmds # <<>> /\ res.status = NO_REPLY /\ res.len = 255
    /\ maxLen = 5 /\ ret = 0 /\ data[0] = GET_LAST_MEASUREMENT

\* the one call of processCommand a well-formed frame leads to
ExpectedCall == [cmd |-> req[0], len |-> len - 2, maxLen |-> maxLen - 2]

\* C13: the checks come in the order general call, maxLen < 2, len < 2,
\* checksum # 0; processCommand is called once when address # 0,
\* maxLen >= 2, len >= 2 and the frame's checksum is 0, and not at all
\* otherwise; it is given buffer[0], len - 2 and maxLen - 2 (a frame with
\* len = 2, no payload, is dispatched).
C13_Order ==
    Called =>
       /\ address = 0 => cmds = <<>> /\ written = {}
       /\ (Addressed /\ maxLen < 2) => cmds = <<>> /\ ret = 0 /\ written = {}
       /\ (Addressed /\ maxLen >= 2 /\ len < 2)
          => cmds = <<>> /\ data[0] = INVALID_TRANSFER
       /\ (Addressed /\ maxLen >= 2 /\ len >= 2 /\ calcCrc(req, len) # 0)
          => cmds = <<>> /\ data[0] = INVALID_CRC
       /\ (Addressed /\ maxLen >= 2 /\ WellFormed) => cmds = <<ExpectedCall>>

C13_Witness ==
    /\ Returned /\ Addressed /\ len = 2 /\ maxLen = 3 /\ WellFormed
    /\ cmds = <<[cmd |-> RESET_ADDRESS, len |-> 0, maxLen |-> 1]>>

\* the handler stored nothing / stored to reply bytes 0..3 only
HandlerWroteNothing == res.data = req
HandlerWroteFour == \A i \in DOMAIN req : i \notin 1..4 => res.data[i] = req[i]

\* C14: processCommand(GET_LAST_MEASUREMENT, ...) returns INVALID_ARGUMENTS
\* with length 0 and writes nothing when the payload length is not 0 or the
\* reply capacity is < 4 (a well-formed request with maxLen 2..5 is answered
\* [INVALID_ARGUMENTS, crc], length 2); otherwise it returns COMMAND_OK with
\* length 4 and writes measurement[0] high, low, measurement[1] high, low;
\* it never writes or declares more than the capacity it was given.
C14_GetLastMeasurement ==
    (Returned /\ cmds # <<>> /\ cmds[1].cmd = GET_LAST_MEASUREMENT)
    => /\ res.len <= cmds[1].maxLen
       /\ \A i \in DOMAIN req :
             res.data[i] # req[i] => i >= 1 /\ i <= cmds[1].maxLen
       /\ (cmds[1].len # 0 \/ cmds[1].maxLen < 4)
          => /\ res.status = INVALID_ARGUMENTS /\ res.len = 0
             /\ HandlerWroteNothing
             /\ ret = 2 /\ data[0] = INVALID_ARGUMENTS /\ data[1] = 27
       /\ (cmds[1].len = 0 /\ cmds[1].maxLen >= 4)
          => /\ res.status = COMMAND_OK /\ res.len = 4
             /\ HandlerWroteFour
             /\ 256 * res.data[1] + res.data[2] = entryMeas[0]
             /\ 256 * res.data[3] + res.data[4] = entryMeas[1]

C14_Witness ==
    /\ Returned /\ cmds # <<>> /\ cmds[1].cmd = GET_LAST_MEASUREMENT
    /\ cmds[1].len = 0 /\ maxLen = 5 /\ Measured
    /\ res.status = INVALID_ARGUMENTS /\ ret = 2

\* the reply is n + 2 bytes long with the checksum at index n + 1
LengthIsPayloadPlusTwo ==
    ret = res.len + 2 /\ ret >= 2 /\ (res.len + 1) \in written

\* C15 as stated: for every handler result with status # NO_REPLY and every
\* declared length n in 0..255 the value returned is n + 2, at least 2, and
\* the checksum is stored at index n + 1; no wraparound makes it 0 or 1.
C15_Original ==
    (Returned /\ cmds # <<>> /\ res.status # NO_REPLY)
    => LengthIsPayloadPlusTwo

\* C15 amended: for every handler result with status # NO_REPLY and every
\* declared length n in 0..253 the value returned is n + 2, at least 2, and
\* the checksum is stored at index n + 1 (n = 254 returns 0, n = 255
\* returns 1: len is an uint8_t).
C15_Length ==
    (Returned /\ cmds # <<>> /\ res.status # NO_REPLY /\ res.len <= 253)
    => LengthIsPayloadPlusTwo

C15_Witness ==
    /\ Returned /\ cmds # <<>> /\ res.status = COMMAND_OK /\ res.len = 253
    /\ ret = 255 /\ 254 \in written

\* the two measurements a reply carries
ReplyPair == <<256 * data[1] + data[2], 256 * data[3] + data[4]>>

\* C12: no torn measurement. With the dispatcher run as an interrupt between
\* any two statements of the main loop outside the non-interruptible block,
\* every GET_LAST_MEASUREMENT reply carries the (on, off) pair one iteration
\* of measure_hopper stored (or the initial pair), never the on of one
\* iteration with the off of another.
C12_NoTornMeasurement ==
    (Returned /\ cmds # <<>> /\ cmds[1].cmd = GET_LAST_MEASUREMENT
              /\ res.status = COMMAND_OK)
    => ReplyPair = stored

C12_Witness ==
    /\ Returned /\ cmds # <<>> /\ cmds[1].cmd = GET_LAST_MEASUREMENT
    /\ res.status = COMMAND_OK /\ ret = 6
    /\ line = "enter" /\ on # stored[1] /\ off # stored[2]
    /\ ReplyPair = <<4660, 22136>>

\* encoder_value mod 4 for each reading 0..3, indexed from 1
Phase == <<2, 1, 3, 0>>

\* C16: encoder phase. From prev_reading = 3 and encoder_value = 0, after any
\* sequence of encoder_isr calls with any 2-bit readings (both pins changing
\* at once and 8-bit wraparound included), encoder_value mod 4 is a function
\* of the last reading alone, and is 0 exactly when that reading is 3.
C16_Phase ==
    /\ encoder_value % 4 = Phase[prev_reading + 1]
    /\ encoder_value % 4 = 0 <=> prev_reading = 3

C16_Witness == edges = 1 /\ prev_reading = 0 /\ encoder_value = 254

\* what holds of every return of process()
EventPerDetent ==
    /\ encoder_last_processed % 4 = 0
    /\ S8(U8(encoder_last_processed - entryLast)) = 4 * useful_position
    /\ (firstDiff \in -3..3)
       => useful_position = 0 /\ encoder_last_processed = entryLast

\* C17 as stated: with fewer than 128 counts between two calls of process(),
\* process() consumes one event per detent travelled; on return
\* encoder_last_processed is a multiple of 4 and the signed 8-bit difference
\* encoder_value - encoder_last_processed is in -3..3; leaving a detent and
\* coming back to it gives no event.
C17_Original ==
    proc = "done" => EventPerDetent /\ returnDiff \in -3..3

\* C17 amended: ... on return encoder_last_processed is a multiple of 4 and
\* the signed 8-bit difference process() last read is in -3..3 (encoder_isr
\* may run between that read and the return).
C17_Detents ==
    proc = "done" => EventPerDetent /\ lastDiff \in -3..3

C17_Witness ==
    /\ proc = "done" /\ useful_position = -1 /\ entryLast = 0
    /\ encoder_last_processed = 252 /\ lastDiff = 1 /\ returnDiff = 1

\* the smaller of two numbers
Min(a, b) == IF a < b THEN a ELSE b

\* C18: process() returns useful_position in the high byte and the number of
\* button presses, saturated at 0x7F, in the low 7 bits; button_presses is
\* read and reset in one non-interruptible block, so that no button_isr
\* increment is lost or counted twice.
C18_Packing ==
    proc = "done"
    => /\ returnValue \div 256 = U8(useful_position)
       /\ returnValue % 256 = Min(reported, 127)
       /\ button_presses = taken

\* the part of C18 that holds: the presses are reported once each
C18_Presses ==
    /\ button_presses = taken
    /\ proc = "done" => returnValue % 256 = Min(reported, 127)

====
